---- MODULE Spec2Model ----
(***************************************************************************)
(* Snippet store of src/main.rs: the two storage backends (JsonStorage,    *)
(* SqliteStorage), the storage selector init_storage and the command       *)
(* dispatcher main.                                                        *)
(*                                                                         *)
(*   Spec     one invocation of main after the other                       *)
(*   SpecApi  the storage layer driven directly (new / load / save) with   *)
(*            arbitrary collections, as the unit tests drive it            *)
(*   SpecConc two invocations of main that overlap on one SQLite store     *)
(***************************************************************************)
EXTENDS Integers, Sequences, FiniteSets, TLC

VARIABLES
    fs,         \* the file system: path -> file (absent, JSON text, SQLite database, ...)
    clock,      \* the wall clock OffsetDateTime::now_utc() reads
    pc,         \* per process: position in main
    env,        \* per process: SNIPPETS_APP_STORAGE, an Option
    log,        \* per process: the log file it holds open and its level, where the file
                \* is one of the paths
    refused,    \* per process: the environment has refused a call of this invocation
    args,       \* per process: the command line, as Args::parse reads it
    storage,    \* per process: the backend init_storage built
    started,    \* per process: init_storage and load have returned Ok
    content,    \* per process: the text read from the download or standard input
    map,        \* per process: the collection main holds
    loaded,     \* per process: the collection as load returned it
    overlap,    \* per process: the saves of others that were under way when it loaded
    pending,    \* per process: names SqliteStorage::save has still to insert
    out,        \* per process: the lines printed to standard output
    exit,       \* per process: how main ended
    saveCalls,  \* per process: calls of storage.save in this invocation
    intent,     \* per process: the branch of main that ran
    clean,      \* per process: no other process wrote since this save's DELETE
    replaced,   \* per process: the database file was created anew under its connection
                \* since this save's DELETE
    apiStorage, \* SpecApi: the backend object under test
    apiData,    \* SpecApi: the last save that wrote: backend kind, success, collection, names before
    apiPending, \* SpecApi: the names the save under way has still to insert, in order
    apiResult,  \* SpecApi: outcome of the last call
    apiNoFile,  \* SpecApi: a JsonStorage::load has found no file and returned Ok, and no
                \* save has written since
    apiOpening  \* SpecApi: a SqliteStorage::new has opened its connection and has its
                \* CREATE TABLE still to run

vars == <<fs, clock, pc, env, log, refused, args, storage, started, content, map, loaded, overlap,
          pending, out, exit, saveCalls, intent, clean, replaced,
          apiStorage, apiData, apiPending, apiResult, apiNoFile, apiOpening>>

cliVars == <<clock, pc, env, log, refused, args, storage, started, content, map, loaded, overlap,
             pending, out, exit, saveCalls, intent, clean, replaced>>

apiVars == <<apiStorage, apiData, apiPending, apiResult, apiNoFile, apiOpening>>

(***************************************************************************)
(* Bounds and universes.                                                   *)
(***************************************************************************)
MaxClock == 2

Procs == {1, 2}

Names == {"a", "b"}

Contents == {"x", "y"}

None == << >>

Some(v) == << v >>

Option(S) == {None} \cup {Some(v) : v \in S}

(***************************************************************************)
(* Snippet.created_at: an OffsetDateTime, held as the time crate holds it: *)
(* the local date (year and day of the year), the local time, and the UTC  *)
(* offset (in seconds).                                                    *)
(***************************************************************************)
OffsetDateTime(y, d, h, mi, s, n, o) ==
    [year |-> y, ordinal |-> d, hour |-> h, minute |-> mi, second |-> s,
     nanosecond |-> n, offset |-> o]

\* a timestamp on 1 January, between 00:00:00 and 00:00:59
DateTime(y, s, n, o) == OffsetDateTime(y, 1, 0, 0, s, n, o)

Snippet(c, t) == [content |-> c, created_at |-> t]

EmptyColl == [n \in {} |-> Snippet("", DateTime(0, 0, 0, 0))]

\* Insert as it would be if an existing entry were kept (entry().or_insert)
InsertKeepOld(m, k, v) == [n \in (DOMAIN m) \cup {k} |-> IF n \in DOMAIN m THEN m[n] ELSE v]

\* HashMap::insert
Insert(m, k, v) == [n \in (DOMAIN m) \cup {k} |-> IF n = k THEN v ELSE m[n]]

\* HashMap::remove (the map that is left)
Remove(m, k) == [n \in (DOMAIN m) \ {k} |-> m[n]]

\* every entry of m is an entry of d
SubColl(m, d) == (DOMAIN m \subseteq DOMAIN d) /\ (\A n \in DOMAIN m : m[n] = d[n])

(***************************************************************************)
(* The calendar of the time crate (proleptic Gregorian).                   *)
(***************************************************************************)
IsLeapYear(y) == y % 4 = 0 /\ (y % 100 # 0 \/ y % 400 = 0)

DaysInYear(y) == IF IsLeapYear(y) THEN 366 ELSE 365

DaysInMonth(y, m) ==
    IF m = 2 THEN (IF IsLeapYear(y) THEN 29 ELSE 28)
    ELSE IF m \in {4, 6, 9, 11} THEN 30
    ELSE 31

\* the days of year y before its month m
RECURSIVE DaysBefore(_, _)
DaysBefore(y, m) == IF m <= 1 THEN 0 ELSE DaysBefore(y, m - 1) + DaysInMonth(y, m - 1)

\* Date::month of the day d of year y
MonthOf(y, d) ==
    CHOOSE m \in 1..12 : DaysBefore(y, m) < d /\ d <= DaysBefore(y, m) + DaysInMonth(y, m)

\* Date::day of the day d of year y
DayOf(y, d) == d - DaysBefore(y, MonthOf(y, d))

(***************************************************************************)
(* Text of a timestamp, as sequences of decimal digits, one per field of   *)
(* yyyy-mm-ddThh:mm:ss[.f]z:                                               *)
(*   y, mo, d the date, h, mi, s the time, f the digits after the '.'      *)
(*   (none: no '.'), z the offset: << >> for "Z", <<sign, h, h, m, m>>     *)
(*   otherwise (sign 0 for '+', 1 for '-').                                *)
(***************************************************************************)
Text(y, mo, d, h, mi, s, f, z) ==
    [y |-> y, mo |-> mo, d |-> d, h |-> h, mi |-> mi, s |-> s, f |-> f, z |-> z]

NoText == Text(<< >>, << >>, << >>, << >>, << >>, << >>, << >>, << >>)

Pow10(k) == IF k = 0 THEN 1 ELSE IF k = 1 THEN 10 ELSE IF k = 2 THEN 100
            ELSE IF k = 3 THEN 1000 ELSE IF k = 4 THEN 10000
            ELSE IF k = 5 THEN 100000 ELSE IF k = 6 THEN 1000000
            ELSE IF k = 7 THEN 10000000 ELSE IF k = 8 THEN 100000000
            ELSE 1000000000

Digits(n, w) == [i \in 1..w |-> (n \div Pow10(w - i)) % 10]

RECURSIVE StripZeros(_)
StripZeros(d) ==
    IF d = << >> THEN d
    ELSE IF d[Len(d)] = 0 THEN StripZeros(SubSeq(d, 1, Len(d) - 1))
    ELSE d

RECURSIVE Number(_)
Number(d) ==
    IF d = << >> THEN 0
    ELSE 10 * Number(SubSeq(d, 1, Len(d) - 1)) + d[Len(d)]

IsDigits(d) == \A i \in 1..Len(d) : d[i] \in 0..9

Abs(i) == IF i < 0 THEN -i ELSE i

Ok(v) == [ok |-> TRUE, value |-> v]

Err(v) == [ok |-> FALSE, value |-> v]

\* the offset as the text writes it: "Z" for UTC, else sign, hours and minutes
OffsetText(o) ==
    IF o = 0 THEN << >>
    ELSE <<IF o < 0 THEN 1 ELSE 0>>
         \o Digits(Abs(o) \div 3600, 2) \o Digits((Abs(o) % 3600) \div 60, 2)

\* FormatRfc3339 as it would be if the format kept whole seconds only
FormatRfc3339WholeSeconds(t) ==
    IF t.year < 0 THEN Err(NoText)
    ELSE IF Abs(t.offset) \div 3600 > 23 THEN Err(NoText)
    ELSE IF Abs(t.offset) % 60 # 0 THEN Err(NoText)
    ELSE Ok(Text(Digits(t.year, 4),
                 Digits(MonthOf(t.year, t.ordinal), 2),
                 Digits(DayOf(t.year, t.ordinal), 2),
                 Digits(t.hour, 2),
                 Digits(t.minute, 2),
                 Digits(t.second, 2),
                 << >>,
                 OffsetText(t.offset)))

\* OffsetDateTime::format(&Rfc3339): no year before 0, no offset of 24 hours or
\* more, no offset with seconds; the fraction without its trailing zeros
FormatRfc3339(t) ==
    IF t.year < 0 THEN Err(NoText)
    ELSE IF Abs(t.offset) \div 3600 > 23 THEN Err(NoText)
    ELSE IF Abs(t.offset) % 60 # 0 THEN Err(NoText)
    ELSE Ok(Text(Digits(t.year, 4),
                 Digits(MonthOf(t.year, t.ordinal), 2),
                 Digits(DayOf(t.year, t.ordinal), 2),
                 Digits(t.hour, 2),
                 Digits(t.minute, 2),
                 Digits(t.second, 2),
                 IF t.nanosecond = 0 THEN << >>
                 ELSE StripZeros(Digits(t.nanosecond, 9)),
                 OffsetText(t.offset)))

\* the shape the parser asks for: the width of each field, any number of digits
\* after the '.', an offset hour of 23 at most
WellFormedText(x) ==
    /\ Len(x.y) = 4 /\ IsDigits(x.y)
    /\ Len(x.mo) = 2 /\ IsDigits(x.mo)
    /\ Len(x.d) = 2 /\ IsDigits(x.d)
    /\ Len(x.h) = 2 /\ IsDigits(x.h)
    /\ Len(x.mi) = 2 /\ IsDigits(x.mi)
    /\ Len(x.s) = 2 /\ IsDigits(x.s)
    /\ IsDigits(x.f)
    /\ \/ x.z = << >>
       \/ /\ Len(x.z) = 5
          /\ x.z[1] \in {0, 1}
          /\ IsDigits(SubSeq(x.z, 2, 5))
          /\ Number(SubSeq(x.z, 2, 3)) <= 23

\* the nanosecond of the digits after the '.': those after the ninth are dropped
Nanosecond(f) ==
    IF Len(f) > 9 THEN Number(SubSeq(f, 1, 9)) ELSE Number(f) * Pow10(9 - Len(f))

\* OffsetDateTime::is_valid_leap_second_stand_in: the last nanosecond of the last
\* day of a month, in UTC
ValidLeapSecondStandIn(t) ==
    LET utc == t.hour * 3600 + t.minute * 60 + t.second - t.offset
        day == t.ordinal + (utc \div 86400)
        year == IF day < 1 THEN t.year - 1
                ELSE IF day > DaysInYear(t.year) THEN t.year + 1
                ELSE t.year
        ordinal == IF day < 1 THEN day + DaysInYear(t.year - 1)
                   ELSE IF day > DaysInYear(t.year) THEN day - DaysInYear(t.year)
                   ELSE day
    IN  /\ t.nanosecond = 999999999
        /\ year \in -9999..9999
        /\ utc % 86400 = 86399
        /\ DayOf(year, ordinal) = DaysInMonth(year, MonthOf(year, ordinal))

\* OffsetDateTime::parse(&s, &Rfc3339): a second of 60 stands for the nanosecond
\* before the minute ends, and is taken at the end of a month (UTC) only
ParseRfc3339(x) ==
    LET leap == Number(x.s) = 60
        t == OffsetDateTime(Number(x.y),
                            DaysBefore(Number(x.y), Number(x.mo)) + Number(x.d),
                            Number(x.h),
                            Number(x.mi),
                            IF leap THEN 59 ELSE Number(x.s),
                            IF leap THEN 999999999 ELSE Nanosecond(x.f),
                            IF x.z = << >> THEN 0
                            ELSE (IF x.z[1] = 1 THEN -1 ELSE 1)
                                 * (Number(SubSeq(x.z, 2, 3)) * 3600
                                    + Number(SubSeq(x.z, 4, 5)) * 60))
    IN  IF ~WellFormedText(x) THEN Err(DateTime(0, 0, 0, 0))
        ELSE IF \/ Number(x.mo) \notin 1..12
                \/ Number(x.d) \notin 1..DaysInMonth(Number(x.y), Number(x.mo))
                \/ Number(x.h) > 23
                \/ Number(x.mi) > 59
                \/ Number(x.s) > 60
                \/ (x.z # << >> /\ Number(SubSeq(x.z, 4, 5)) > 59)
        THEN Err(DateTime(0, 0, 0, 0))
        ELSE IF leap /\ ~ValidLeapSecondStandIn(t) THEN Err(DateTime(0, 0, 0, 0))
        ELSE Ok(t)

(***************************************************************************)
(* serde form of a Snippet in the JSON file.  created_at is the tuple      *)
(* (year, ordinal, hour, minute, second, nanosecond, offset hours,         *)
(* offset minutes, offset seconds) that the derived Serialize writes.      *)
(***************************************************************************)
Sign(i) == IF i < 0 THEN -1 ELSE 1

\* #[derive(Serialize)] for Snippet
SerializeSnippet(sn) ==
    [content |-> sn.content,
     created_at |-> <<sn.created_at.year, sn.created_at.ordinal,
                      sn.created_at.hour, sn.created_at.minute,
                      sn.created_at.second, sn.created_at.nanosecond,
                      Sign(sn.created_at.offset) * (Abs(sn.created_at.offset) \div 3600),
                      Sign(sn.created_at.offset) * ((Abs(sn.created_at.offset) % 3600) \div 60),
                      Sign(sn.created_at.offset) * (Abs(sn.created_at.offset) % 60)>>]

\* the ranges Date::from_ordinal_date, Date::with_hms_nano and UtcOffset::from_hms accept
ValidJsonSnippet(j) ==
    /\ j.created_at[1] \in -9999..9999
    /\ j.created_at[2] \in 1..DaysInYear(j.created_at[1])
    /\ j.created_at[3] \in 0..23
    /\ j.created_at[4] \in 0..59
    /\ j.created_at[5] \in 0..59
    /\ j.created_at[6] \in 0..999999999
    /\ j.created_at[7] \in -25..25
    /\ j.created_at[8] \in -59..59
    /\ j.created_at[9] \in -59..59

\* UtcOffset::from_hms: the three components take the sign of the first of them
\* that is not zero
FromHms(h, m, s) ==
    (IF h # 0 THEN Sign(h) ELSE IF m # 0 THEN Sign(m) ELSE Sign(s))
        * (Abs(h) * 3600 + Abs(m) * 60 + Abs(s))

\* #[derive(Deserialize)] for Snippet, on a value that is valid
DeserializeSnippet(j) ==
    Snippet(j.content,
            OffsetDateTime(j.created_at[1], j.created_at[2], j.created_at[3],
                           j.created_at[4], j.created_at[5], j.created_at[6],
                           FromHms(j.created_at[7], j.created_at[8], j.created_at[9])))

(***************************************************************************)
(* Files.  kind "none": no file at the path; "nodir": no file, and the     *)
(* directory of the path does not exist; "json": a JSON text, json maps    *)
(* each name to its serde form; "sqlite": a database with the table        *)
(* snippets, rows maps each name (the primary key) to its row; "empty": a  *)
(* file of no bytes; "byte": a file of one byte; "text": two bytes or more *)
(* that are neither a JSON text nor a database (the beginning of a JSON    *)
(* text, log lines, a database with log lines over its header).            *)
(***************************************************************************)
File(k, j, r) == [kind |-> k, json |-> j, rows |-> r]

NoFile == File("none", EmptyColl, EmptyColl)

NoDir == File("nodir", EmptyColl, EmptyColl)

EmptyFile == File("empty", EmptyColl, EmptyColl)

ByteFile == File("byte", EmptyColl, EmptyColl)

TextFile == File("text", EmptyColl, EmptyColl)

JsonFile(j) == File("json", j, EmptyColl)

SqliteFile(r) == File("sqlite", EmptyColl, r)

Row(c, x) == [content |-> c, created_at |-> x]

LoadOk(m) == [status |-> "ok", value |-> m]

LoadErr == [status |-> "error", value |-> EmptyColl]

LoadPanic == [status |-> "panic", value |-> EmptyColl]

\* Path::exists
Exists(file) == file.kind \notin {"none", "nodir"}

\* what the system can refuse below load: "hidden", the look at the path (the
\* directory may not be searched), after which Path::exists is false; "refused",
\* File::open, or the database its statement
LoadFaults == {"none", "hidden", "refused"}

\* JsonLoad as it would be without the check that the file exists
JsonLoadNoExistsCheck(file, fault) ==
    IF fault # "none" THEN LoadErr
    ELSE IF file.kind # "json" THEN LoadErr
    ELSE IF \E n \in DOMAIN file.json : ~ValidJsonSnippet(file.json[n]) THEN LoadErr
    ELSE LoadOk([n \in DOMAIN file.json |-> DeserializeSnippet(file.json[n])])

\* JsonStorage::load: Path::exists is false also where the system refuses the
\* look at the path
JsonLoad(file, fault) ==
    IF ~Exists(file) \/ fault = "hidden" THEN LoadOk(EmptyColl)
    ELSE IF fault = "refused" THEN LoadErr
    ELSE IF file.kind # "json" THEN LoadErr
    ELSE IF \E n \in DOMAIN file.json : ~ValidJsonSnippet(file.json[n]) THEN LoadErr
    ELSE LoadOk([n \in DOMAIN file.json |-> DeserializeSnippet(file.json[n])])

\* what can go wrong below JsonStorage::save: File::create refused; the write
\* failing before its first byte, after its first byte ('{'), or later
SaveFaults == {"none", "refused", "cut0", "cut1", "cut"}

\* what a write of the JSON text of data leaves when it fails after the first
\* byte and before the last: the text of the empty map has two bytes
CutShort(data) == IF data = EmptyColl THEN ByteFile ELSE TextFile

\* JsonSave as it would be if the file were opened without truncation and merged
JsonSaveMerging(file, data, fault) ==
    IF file.kind = "nodir" \/ fault = "refused" THEN Err(file)
    ELSE IF fault = "cut0" THEN Err(EmptyFile)
    ELSE IF fault = "cut1" THEN Err(ByteFile)
    ELSE IF fault = "cut" THEN Err(CutShort(data))
    ELSE Ok(JsonFile([n \in DOMAIN file.json \cup DOMAIN data |->
                         IF n \in DOMAIN data THEN SerializeSnippet(data[n])
                         ELSE file.json[n]]))

\* JsonStorage::save: File::create truncates, to_writer_pretty writes the whole map
JsonSave(file, data, fault) ==
    IF file.kind = "nodir" \/ fault = "refused" THEN Err(file)
    ELSE IF fault = "cut0" THEN Err(EmptyFile)
    ELSE IF fault = "cut1" THEN Err(ByteFile)
    ELSE IF fault = "cut" THEN Err(CutShort(data))
    ELSE Ok(JsonFile([n \in DOMAIN data |-> SerializeSnippet(data[n])]))

\* Connection::open: creates the file of an absent database; denied: the system
\* refuses to open or to create it
SqliteOpen(file, denied) ==
    IF denied \/ file.kind = "nodir" THEN Err(file)
    ELSE Ok(IF file.kind = "none" THEN EmptyFile ELSE file)

\* CREATE TABLE IF NOT EXISTS snippets, on the open connection: a file of one byte
\* at most is taken for a database without tables; denied: the database refuses
\* the statement (locked, no write access)
SqliteCreateTable(file, denied) ==
    IF denied THEN Err(file)
    ELSE IF file.kind \in {"empty", "byte"} THEN Ok(SqliteFile(EmptyColl))
    ELSE IF file.kind = "sqlite" THEN Ok(file)
    ELSE Err(file)

\* what can go wrong below SqliteStorage::new: the open refused, the CREATE TABLE
\* refused
SqliteFaults == {"none", "open", "create"}

\* SqliteStorage::new: Connection::open(..)?, then CREATE TABLE IF NOT EXISTS ..?
SqliteNew(file, fault) ==
    IF ~SqliteOpen(file, fault = "open").ok THEN Err(file)
    ELSE SqliteCreateTable(SqliteOpen(file, FALSE).value, fault = "create")

\* the file is the database with the table snippets the connection was opened on
\* (it is not once something else has emptied or overwritten it)
HasTable(file) == file.kind = "sqlite"

\* SqliteStorage::load: prepare and query_map return the refusal of the database
\* (denied: locked by another connection), the closure unwraps the parse of created_at
SqliteLoad(file, denied) ==
    IF denied \/ ~HasTable(file) THEN LoadErr
    ELSE IF \E n \in DOMAIN file.rows : ~ParseRfc3339(file.rows[n].created_at).ok
    THEN LoadPanic
    ELSE LoadOk([n \in DOMAIN file.rows |->
                    Snippet(file.rows[n].content,
                            ParseRfc3339(file.rows[n].created_at).value)])

\* SqlDelete as it would be if the statement removed nothing
SqlDeleteNothing(file) == file

\* DELETE FROM snippets, executed
SqlDelete(file) == SqliteFile(EmptyColl)

\* INSERT INTO snippets ..., executed: name is the PRIMARY KEY
SqlInsert(file, name, row) ==
    IF name \in DOMAIN file.rows THEN Err(file)
    ELSE Ok(SqliteFile(Insert(file.rows, name, row)))

\* one turn of the loop of SqliteStorage::save; denied: the database refuses the
\* statement (locked, disk full)
InsertSnippet(file, name, sn, denied) ==
    IF ~FormatRfc3339(sn.created_at).ok THEN Err(file)
    ELSE IF denied \/ ~HasTable(file) THEN Err(file)
    ELSE SqlInsert(file, name, Row(sn.content, FormatRfc3339(sn.created_at).value))

\* the orders in which a HashMap with these keys can be iterated
Orders(S) ==
    {o \in [1..Cardinality(S) -> S] : \A i, j \in 1..Cardinality(S) : o[i] = o[j] => i = j}

(***************************************************************************)
(* init_storage.  A configuration string is a sequence of tokens; ":" is   *)
(* the separator character.                                                *)
(***************************************************************************)
HasColon(s) == \E i \in 1..Len(s) : s[i] = ":"

\* FirstColon as it would be for rsplit_once: the last separator
LastColon(s) == CHOOSE i \in 1..Len(s) : s[i] = ":" /\ \A j \in (i + 1)..Len(s) : s[j] # ":"

FirstColon(s) == CHOOSE i \in 1..Len(s) : s[i] = ":" /\ \A j \in 1..(i - 1) : s[j] # ":"

\* str::split_once(':')
SplitOnce(s) ==
    IF ~HasColon(s) THEN None
    ELSE Some(<<SubSeq(s, 1, FirstColon(s) - 1), SubSeq(s, FirstColon(s) + 1, Len(s))>>)

Backend(k, p) == [kind |-> k, path |-> p]

NoBackend == Backend("none", << >>)

\* the match of init_storage on the kind tag, before the backend is constructed
SelectKind(config) ==
    IF config = None THEN "error"
    ELSE IF SplitOnce(config[1]) = None THEN "error"
    ELSE IF SplitOnce(config[1])[1][1] = <<"JSON">> THEN "JSON"
    ELSE IF SplitOnce(config[1])[1][1] = <<"SQLITE">> THEN "SQLITE"
    ELSE "error"

SelectPath(config) == SplitOnce(config[1])[1][2]

(***************************************************************************)
(* The inputs of an invocation of main.                                    *)
(***************************************************************************)
\* a path that holds a ':', in a directory that does not exist
NoDirPath == <<"d", "/", "p", ":", "q">>

Paths == {<<"p">>, NoDirPath}

Configs == {<<"JSON", ":", "p">>, <<"SQLITE", ":", "p">>, <<"JSON">>,
            <<"XML", ":", "p">>, <<"JSON", ":", "d", "/", "p", ":", "q">>}

Urls == {"u"}

\* the command lines Args::parse accepts as Args
Args == [name : Option(Names), read : Option(Names),
         delete : Option(Names), download : Option(Urls), special : {"none"}]

NoArgs == [name |-> None, read |-> None, delete |-> None, download |-> None,
           special |-> "none"]

\* the command lines on which Args::parse ends the process itself: --help and
\* --version print and exit with 0, a line it cannot parse exits with 2
SpecialLines == {[NoArgs EXCEPT !.special = s] : s \in {"help", "version", "bad"}}

CommandLines == Args \cup SpecialLines

\* what Args::parse prints for --help and for --version
HelpText == <<[text |-> "help", ts |-> NoText, body |-> ""]>>

VersionText == <<[text |-> "version", ts |-> NoText, body |-> ""]>>

\* the log file and the level an invocation is configured with: none where the
\* file is not one of the paths (snippets.log in the working directory unless
\* SNIPPETS_APP_LOG_PATH names another); info: SNIPPETS_APP_LOG_LEVEL lets INFO
\* events through (as the default does)
LogConfig(f, i) == [file |-> f, info |-> i]

LogConfigs == {None} \cup {Some(LogConfig(f, i)) : f \in Paths, i \in BOOLEAN}

\* OffsetDateTime::now_utc(): two readings a second, UTC
Now(c) == DateTime(2024, c \div 2, (c % 2) * 500000000, 0)

Line(t, x, b) == [text |-> t, ts |-> x, body |-> b]

Say(t) == <<Line(t, NoText, "")>>

UsageText == <<Line("Usage:", NoText, ""),
               Line("  --name <name> [--download URL]", NoText, ""),
               Line("  --read <name>", NoText, ""),
               Line("  --delete <name>", NoText, "")>>

Others(p) == Procs \ {p}

(***************************************************************************)
(* main, one action per step.  A step ends where the program hands over to *)
(* the file system or the database: each statement SqliteStorage runs is a *)
(* transaction of its own.                                                 *)
(***************************************************************************)
\* main returns: Err(..) from a `?`, a panic, or Ok(())
Return(p, how, lines) ==
    /\ pc' = [pc EXCEPT ![p] = "exit"]
    /\ exit' = [exit EXCEPT ![p] = how]
    /\ out' = [out EXCEPT ![p] = out[p] \o lines]

\* File::create(log_path) of init_logging: creates the log file or empties it
LogCreate(files, lg) ==
    IF lg = None THEN files ELSE [files EXCEPT ![lg[1].file] = EmptyFile]

\* an event goes to the log file: one that passes the EnvFilter
Logs(lg) == lg # None /\ lg[1].info

\* an info! event: where the filter lets it through, the line is written through
\* the handle init_logging opened, the first one at the start of the file
LogWrite(files, lg) ==
    IF Logs(lg) THEN [files EXCEPT ![lg[1].file] = TextFile] ELSE files

\* File::create of init_logging under configuration lg empties the file of the
\* database whose rows the save of q is inserting
UnderSave(q, lg) ==
    /\ lg # None
    /\ pc[q] = "insert"
    /\ storage[q].path = lg[1].file

\* the process starts: init_logging, which unwraps the creation of the log file
\* (denied: the system refuses it), then Args::parse, which ends the process on
\* --help, --version and on a line it cannot parse
Invoke(p, a, lg, denied) ==
    /\ pc[p] = "idle"
    /\ a.name # None => clock < MaxClock
    /\ args' = [args EXCEPT ![p] = a]
    /\ IF denied \/ (lg # None /\ fs[lg[1].file].kind = "nodir")
       THEN /\ Return(p, "panic", << >>)
            /\ refused' = [refused EXCEPT ![p] = TRUE]
            /\ UNCHANGED <<fs, clean, replaced, log>>
       ELSE /\ log' = [log EXCEPT ![p] = lg]
            /\ fs' = LogCreate(fs, lg)
            /\ clean' = [q \in Procs |-> clean[q] /\ lg = None]
            /\ replaced' = [q \in Procs |-> replaced[q] \/ UnderSave(q, lg)]
            /\ IF a.special = "help" THEN Return(p, "ok", HelpText)
               ELSE IF a.special = "version" THEN Return(p, "ok", VersionText)
               ELSE IF a.special = "bad" THEN Return(p, "bad", << >>)
               ELSE /\ pc' = [pc EXCEPT ![p] = "init"]
                    /\ UNCHANGED <<out, exit>>
            /\ UNCHANGED refused
    /\ UNCHANGED <<clock, env, storage, started, content, map, loaded, overlap, pending,
                   saveCalls, intent, apiVars>>

\* the process is gone, and with it everything it held in memory
Terminate(p) ==
    /\ pc[p] = "exit"
    /\ pc' = [pc EXCEPT ![p] = "idle"]
    /\ env' = [env EXCEPT ![p] = None]
    /\ log' = [log EXCEPT ![p] = None]
    /\ refused' = [refused EXCEPT ![p] = FALSE]
    /\ args' = [args EXCEPT ![p] = NoArgs]
    /\ storage' = [storage EXCEPT ![p] = NoBackend]
    /\ started' = [started EXCEPT ![p] = FALSE]
    /\ content' = [content EXCEPT ![p] = None]
    /\ map' = [map EXCEPT ![p] = EmptyColl]
    /\ loaded' = [loaded EXCEPT ![p] = EmptyColl]
    /\ overlap' = [overlap EXCEPT ![p] = {}]
    /\ pending' = [pending EXCEPT ![p] = {}]
    /\ out' = [out EXCEPT ![p] = << >>]
    /\ exit' = [exit EXCEPT ![p] = "running"]
    /\ saveCalls' = [saveCalls EXCEPT ![p] = 0]
    /\ intent' = [intent EXCEPT ![p] = "none"]
    /\ clean' = [clean EXCEPT ![p] = FALSE]
    /\ replaced' = [replaced EXCEPT ![p] = FALSE]
    /\ UNCHANGED <<fs, clock, apiVars>>

\* let mut storage = init_storage()?, up to Connection::open: e is what
\* SNIPPETS_APP_STORAGE holds
InitStorageStep(p, e, denied) ==
    /\ pc[p] = "init"
    /\ denied => SelectKind(e) = "SQLITE"
    /\ env' = [env EXCEPT ![p] = e]
    /\ IF SelectKind(e) = "error"
       THEN /\ Return(p, "error", << >>)
            /\ UNCHANGED <<storage, fs, refused>>
       ELSE IF SelectKind(e) = "JSON"
       THEN /\ storage' = [storage EXCEPT ![p] = Backend("JSON", SelectPath(e))]
            /\ pc' = [pc EXCEPT ![p] = "load"]
            /\ UNCHANGED <<fs, out, exit, refused>>
       ELSE IF SqliteOpen(fs[SelectPath(e)], denied).ok
       THEN /\ fs' = [fs EXCEPT ![SelectPath(e)] = SqliteOpen(@, denied).value]
            /\ pc' = [pc EXCEPT ![p] = "table"]
            /\ UNCHANGED <<storage, out, exit, refused>>
       ELSE /\ Return(p, "error", << >>)
            /\ refused' = [refused EXCEPT ![p] = denied]
            /\ UNCHANGED <<storage, fs>>
    /\ UNCHANGED <<clock, log, args, started, content, map, loaded, overlap, pending,
                   saveCalls, intent, clean, replaced, apiVars>>

\* SqliteStorage::new from its CREATE TABLE on, and the return of init_storage
CreateTable(p, denied) ==
    /\ pc[p] = "table"
    /\ denied => fs[SelectPath(env[p])].kind \in {"empty", "byte", "sqlite"}
    /\ IF SqliteCreateTable(fs[SelectPath(env[p])], denied).ok
       THEN /\ fs' = [fs EXCEPT ![SelectPath(env[p])] = SqliteCreateTable(@, denied).value]
            /\ storage' = [storage EXCEPT ![p] = Backend("SQLITE", SelectPath(env[p]))]
            /\ pc' = [pc EXCEPT ![p] = "load"]
            /\ UNCHANGED <<out, exit, refused>>
       ELSE /\ Return(p, "error", << >>)
            /\ refused' = [refused EXCEPT ![p] = denied]
            /\ UNCHANGED <<storage, fs>>
    /\ UNCHANGED <<clock, env, log, args, started, content, map, loaded, overlap, pending,
                   saveCalls, intent, clean, replaced, apiVars>>

\* storage.load() through the trait object
StorageLoad(b, files, fault) ==
    IF b.kind = "JSON" THEN JsonLoad(files[b.path], fault)
    ELSE SqliteLoad(files[b.path], fault # "none")

\* a save of q that is between its DELETE and its last INSERT: whether q had loaded
\* any entry, and whether it alone has written since its DELETE
Overlapped(q) == [proc |-> q, hadEntries |-> loaded[q] # EmptyColl, alone |-> clean[q]]

\* let mut map = storage.load()?;
LoadStep(p, fault) ==
    /\ pc[p] = "load"
    /\ fault # "none" => (storage[p].kind = "SQLITE" \/ Exists(fs[storage[p].path]))
    /\ storage[p].kind = "SQLITE" => fault # "hidden"
    /\ refused' = [refused EXCEPT ![p] = fault # "none"]
    /\ IF StorageLoad(storage[p], fs, fault).status = "ok"
       THEN /\ map' = [map EXCEPT ![p] = StorageLoad(storage[p], fs, fault).value]
            /\ loaded' = [loaded EXCEPT ![p] = StorageLoad(storage[p], fs, fault).value]
            /\ overlap' = [overlap EXCEPT ![p] =
                             {Overlapped(q) : q \in {r \in Others(p) : pc[r] = "insert"}}]
            /\ started' = [started EXCEPT ![p] = TRUE]
            /\ pc' = [pc EXCEPT ![p] = "dispatch"]
            /\ UNCHANGED <<out, exit>>
       ELSE /\ Return(p, StorageLoad(storage[p], fs, fault).status, << >>)
            /\ UNCHANGED <<map, loaded, overlap, started>>
    /\ UNCHANGED <<fs, clock, env, log, args, storage, content, pending,
                   saveCalls, intent, clean, replaced, apiVars>>

\* what main prints once save has returned Ok
Done(p) == Say(IF intent[p] = "create" THEN "Snippet saved." ELSE "Snippet deleted.")

\* save has returned Ok: a delete prints and returns; a create has its info! event
\* first, a step of its own where the line goes into one of the paths
AfterSave(p) ==
    IF intent[p] = "create" /\ Logs(log[p])
    THEN /\ pc' = [pc EXCEPT ![p] = "log"]
         /\ UNCHANGED <<out, exit>>
    ELSE Return(p, "ok", Done(p))

\* if let Some(name) = args.name with --download, up to the request: the info!
\* event, after which main waits for the answer
Download(p) ==
    /\ pc[p] = "dispatch"
    /\ args[p].name # None
    /\ args[p].download # None
    /\ intent' = [intent EXCEPT ![p] = "create"]
    /\ fs' = LogWrite(fs, log[p])
    /\ clean' = [q \in Procs |-> clean[q] /\ ~Logs(log[p])]
    /\ pc' = [pc EXCEPT ![p] = "fetch"]
    /\ UNCHANGED <<clock, env, log, refused, args, storage, started, content, map, loaded,
                   overlap, pending, out, exit, saveCalls, replaced, apiVars>>

\* the create branch from the answer of the download, or from the read of stdin
\* where there is no --download, up to the call of save: body is what the
\* download or stdin gives (none: the `?` on it returns the error)
Create(p, body) ==
    /\ \/ pc[p] = "fetch"
       \/ pc[p] = "dispatch" /\ args[p].name # None /\ args[p].download = None
    /\ clock < MaxClock
    /\ intent' = [intent EXCEPT ![p] = "create"]
    /\ content' = [content EXCEPT ![p] = body]
    /\ refused' = [refused EXCEPT ![p] = @ \/ body = None]
    /\ IF body = None
       THEN /\ Return(p, "error", << >>)
            /\ UNCHANGED <<clock, map>>
       ELSE /\ map' = [map EXCEPT ![p] =
                         Insert(map[p], args[p].name[1], Snippet(body[1], Now(clock)))]
            /\ clock' = clock + 1
            /\ pc' = [pc EXCEPT ![p] = "save"]
            /\ UNCHANGED <<out, exit>>
    /\ UNCHANGED <<fs, env, log, args, storage, started, loaded, overlap, pending,
                   saveCalls, clean, replaced, apiVars>>

\* storage.save(&map)?: JsonStorage::save whole, SqliteStorage::save up to its DELETE.
\* fault: what the file system or the database refuses
CallSave(p, fault) ==
    /\ pc[p] = "save"
    /\ storage[p].kind = "SQLITE" => fault \in {"none", "refused"}
    /\ saveCalls' = [saveCalls EXCEPT ![p] = saveCalls[p] + 1]
    /\ refused' = [refused EXCEPT ![p] = @ \/ fault # "none"]
    /\ replaced' = [replaced EXCEPT ![p] = FALSE]
    /\ IF storage[p].kind = "JSON"
       THEN /\ fs' = [fs EXCEPT ![storage[p].path] = JsonSave(@, map[p], fault).value]
            /\ IF JsonSave(fs[storage[p].path], map[p], fault).ok
               THEN AfterSave(p)
               ELSE Return(p, "error", << >>)
            /\ UNCHANGED <<pending, clean>>
       ELSE IF fault = "refused" \/ ~HasTable(fs[storage[p].path])
       THEN /\ Return(p, "error", << >>)
            /\ UNCHANGED <<fs, pending, clean>>
       ELSE /\ fs' = [fs EXCEPT ![storage[p].path] = SqlDelete(@)]
            /\ clean' = [q \in Procs |-> q = p]
            /\ pending' = [pending EXCEPT ![p] = DOMAIN map[p]]
            /\ IF DOMAIN map[p] = {}
               THEN AfterSave(p)
               ELSE /\ pc' = [pc EXCEPT ![p] = "insert"]
                    /\ UNCHANGED <<out, exit>>
    /\ UNCHANGED <<clock, env, log, args, storage, started, content, map, loaded, overlap,
                   intent, apiVars>>

\* the database as the connection of p holds it during the loop of its save:
\* the rows it has inserted since its DELETE
Held(p) ==
    SqliteFile([n \in DOMAIN map[p] \ pending[p] |->
                   Row(map[p][n].content, FormatRfc3339(map[p][n].created_at).value)])

\* what an INSERT of p works on: the file as it is; where the file has been
\* created anew under the connection (SQLite leaves open what then happens),
\* that or the pages the connection holds (held)
View(p, held) == IF held THEN Held(p) ELSE fs[storage[p].path]

\* one turn of the loop of SqliteStorage::save, for an entry not yet visited
SqliteInsert(p, n, denied, held) ==
    /\ pc[p] = "insert"
    /\ n \in pending[p]
    /\ denied => FormatRfc3339(map[p][n].created_at).ok
    /\ held => replaced[p]
    /\ refused' = [refused EXCEPT ![p] = @ \/ denied]
    /\ IF InsertSnippet(View(p, held), n, map[p][n], denied).ok
       THEN /\ fs' = [fs EXCEPT ![storage[p].path] =
                        InsertSnippet(View(p, held), n, map[p][n], denied).value]
            /\ pending' = [pending EXCEPT ![p] = pending[p] \ {n}]
            /\ clean' = [q \in Procs |-> q = p /\ clean[p]]
            /\ IF pending[p] = {n}
               THEN AfterSave(p)
               ELSE UNCHANGED <<pc, out, exit>>
       ELSE /\ Return(p, "error", << >>)
            /\ UNCHANGED <<fs, pending, clean>>
    /\ UNCHANGED <<clock, env, log, args, storage, started, content, map, loaded, overlap,
                   saveCalls, intent, replaced, apiVars>>

\* info!("Snippet saved"); println!("Snippet saved."); return Ok(())
LogSaved(p) ==
    /\ pc[p] = "log"
    /\ fs' = LogWrite(fs, log[p])
    /\ clean' = [q \in Procs |-> FALSE]
    /\ Return(p, "ok", Done(p))
    /\ UNCHANGED <<clock, env, log, refused, args, storage, started, content, map, loaded, overlap,
                   pending, saveCalls, intent, replaced, apiVars>>

\* if let Some(name) = args.read
Read(p) ==
    /\ pc[p] = "dispatch"
    /\ args[p].name = None
    /\ args[p].read # None
    /\ intent' = [intent EXCEPT ![p] = "read"]
    /\ IF args[p].read[1] \notin DOMAIN map[p]
       THEN Return(p, "ok", Say("Snippet not found."))
       ELSE IF ~FormatRfc3339(map[p][args[p].read[1]].created_at).ok
       THEN Return(p, "error", << >>)
       ELSE Return(p, "ok",
                   <<Line("Created at: ",
                          FormatRfc3339(map[p][args[p].read[1]].created_at).value, ""),
                     Line("", NoText, map[p][args[p].read[1]].content)>>)
    /\ UNCHANGED <<fs, clock, env, log, refused, args, storage, started, content, map, loaded, overlap,
                   pending, saveCalls, clean, replaced, apiVars>>

\* if let Some(name) = args.delete, up to the call of save
Delete(p) ==
    /\ pc[p] = "dispatch"
    /\ args[p].name = None
    /\ args[p].read = None
    /\ args[p].delete # None
    /\ intent' = [intent EXCEPT ![p] = "delete"]
    /\ IF args[p].delete[1] \in DOMAIN map[p]
       THEN /\ map' = [map EXCEPT ![p] = Remove(map[p], args[p].delete[1])]
            /\ pc' = [pc EXCEPT ![p] = "save"]
            /\ UNCHANGED <<out, exit>>
       ELSE /\ Return(p, "ok", Say("Snippet not found."))
            /\ UNCHANGED map
    /\ UNCHANGED <<fs, clock, env, log, refused, args, storage, started, content, loaded, overlap,
                   pending, saveCalls, clean, replaced, apiVars>>

\* no flag given: the usage text
Usage(p) ==
    /\ pc[p] = "dispatch"
    /\ args[p].name = None
    /\ args[p].read = None
    /\ args[p].delete = None
    /\ intent' = [intent EXCEPT ![p] = "usage"]
    /\ Return(p, "ok", UsageText)
    /\ UNCHANGED <<fs, clock, env, log, refused, args, storage, started, content, map, loaded, overlap,
                   pending, saveCalls, clean, replaced, apiVars>>

(***************************************************************************)
(* The storage layer called directly, as the unit tests call it.           *)
(***************************************************************************)
ApiPath == <<"p">>

\* timestamps a caller can put into a Snippet: whole seconds in UTC; the last
\* second of a leap year with a fraction and an offset of +01:30; 1 March of a
\* common year with a negative offset; a year before 0; an offset of 24 hours
ApiTimes == {DateTime(2024, 0, 0, 0),
             OffsetDateTime(2024, 366, 23, 59, 59, 120000000, 5400),
             OffsetDateTime(2023, 60, 12, 30, 0, 999999999, -3600),
             DateTime(-1, 0, 0, 0),
             DateTime(2024, 0, 0, 86400)}

\* the collections a caller saves: entries of different names differ in content
Collections ==
    {c \in UNION {[S -> {Snippet(x, t) : x \in Contents, t \in ApiTimes}] : S \in SUBSET Names} :
        \A n, m \in DOMAIN c : n # m => c[n].content # c[m].content}

\* the outcome of a call; denied: the file system or the database refused it
Result(o, st, v, dn) == [op |-> o, status |-> st, value |-> v, denied |-> dn]

\* JsonStorage::new
ApiJsonNew ==
    /\ apiPending = << >>
    /\ ~apiOpening
    /\ apiStorage' = Backend("JSON", ApiPath)
    /\ apiResult' = Result("new", "ok", EmptyColl, FALSE)
    /\ UNCHANGED <<fs, apiData, apiPending, apiNoFile, apiOpening, cliVars>>

\* SqliteStorage::new up to Connection::open(path)?; denied: the system refuses
\* to open or to create the file
ApiSqliteOpen(denied) ==
    /\ apiPending = << >>
    /\ ~apiOpening
    /\ fs' = [fs EXCEPT ![ApiPath] = SqliteOpen(@, denied).value]
    /\ IF SqliteOpen(fs[ApiPath], denied).ok
       THEN /\ apiOpening' = TRUE
            /\ apiResult' = Result("open", "ok", EmptyColl, FALSE)
            /\ UNCHANGED apiStorage
       ELSE /\ apiOpening' = FALSE
            /\ apiStorage' = NoBackend
            /\ apiResult' = Result("new", "error", EmptyColl, denied)
    /\ UNCHANGED <<apiData, apiPending, apiNoFile, cliVars>>

\* SqliteStorage::new from its CREATE TABLE on; denied: the database refuses the
\* statement
ApiSqliteNew(denied) ==
    /\ apiOpening
    /\ apiOpening' = FALSE
    /\ fs' = [fs EXCEPT ![ApiPath] = SqliteCreateTable(@, denied).value]
    /\ IF SqliteCreateTable(fs[ApiPath], denied).ok
       THEN /\ apiStorage' = Backend("SQLITE", ApiPath)
            /\ apiResult' = Result("new", "ok", EmptyColl, FALSE)
       ELSE /\ apiStorage' = NoBackend
            /\ apiResult' = Result("new", "error", EmptyColl, denied)
    /\ UNCHANGED <<apiData, apiPending, apiNoFile, cliVars>>

\* SnippetStorage::load, also through a second object while a save or a
\* construction is under way
ApiLoad(fault) ==
    /\ apiStorage # NoBackend
    /\ apiStorage.kind = "SQLITE" => fault # "hidden"
    /\ apiResult' = Result("load", StorageLoad(apiStorage, fs, fault).status,
                           StorageLoad(apiStorage, fs, fault).value,
                           fault # "none"
                               /\ (apiStorage.kind = "SQLITE" \/ Exists(fs[ApiPath])))
    /\ apiNoFile' = (apiNoFile \/ (apiStorage.kind = "JSON" /\ ~Exists(fs[ApiPath])))
    /\ UNCHANGED <<fs, apiStorage, apiData, apiPending, apiOpening, cliVars>>

\* what the store at the path holds, by name
StoredNames(file) == IF file.kind = "json" THEN DOMAIN file.json ELSE DOMAIN file.rows

Saved(k, o, d, b) == [kind |-> k, ok |-> o, data |-> d, before |-> b]

\* SnippetStorage::save: JsonStorage::save whole, SqliteStorage::save up to its
\* DELETE.  data is the collection, order the iteration of the HashMap
ApiSave(data, order, fault) ==
    /\ apiStorage # NoBackend
    /\ apiPending = << >>
    /\ ~apiOpening
    /\ apiStorage.kind = "SQLITE" => fault \in {"none", "refused"}
    /\ IF apiStorage.kind = "JSON"
       THEN LET r == JsonSave(fs[ApiPath], data, fault)
            IN  /\ fs' = [fs EXCEPT ![ApiPath] = r.value]
                /\ apiResult' = Result("save", IF r.ok THEN "ok" ELSE "error",
                                       EmptyColl, fault # "none")
                /\ apiData' = (IF r.value = fs[ApiPath] /\ ~r.ok THEN apiData
                               ELSE Saved("JSON", r.ok, data, StoredNames(fs[ApiPath])))
                /\ apiPending' = << >>
       ELSE IF fault = "refused"
       THEN /\ fs' = fs
            /\ apiResult' = Result("save", "error", EmptyColl, TRUE)
            /\ apiData' = apiData
            /\ apiPending' = << >>
       ELSE /\ fs' = [fs EXCEPT ![ApiPath] = SqlDelete(@)]
            /\ apiResult' = Result("save", IF order = << >> THEN "ok" ELSE "running",
                                   EmptyColl, FALSE)
            /\ apiData' = Saved("SQLITE", order = << >>, data, StoredNames(fs[ApiPath]))
            /\ apiPending' = order
    /\ apiNoFile' = (apiNoFile /\ apiData' = apiData)
    /\ UNCHANGED <<apiStorage, apiOpening, cliVars>>

\* one turn of the loop of SqliteStorage::save
ApiInsert(denied) ==
    /\ apiPending # << >>
    /\ ~apiOpening
    /\ LET r == InsertSnippet(fs[ApiPath], Head(apiPending),
                              apiData.data[Head(apiPending)], denied)
       IN  IF r.ok
           THEN /\ fs' = [fs EXCEPT ![ApiPath] = r.value]
                /\ apiPending' = Tail(apiPending)
                /\ apiData' = [apiData EXCEPT !.ok = Tail(apiPending) = << >>]
                /\ apiResult' = Result("save",
                                       IF Tail(apiPending) = << >> THEN "ok" ELSE "running",
                                       EmptyColl, FALSE)
           ELSE /\ fs' = fs
                /\ apiPending' = << >>
                /\ apiData' = apiData
                /\ apiResult' = Result("save", "error", EmptyColl,
                                       FormatRfc3339(apiData.data[Head(apiPending)]
                                                         .created_at).ok)
    /\ UNCHANGED <<apiStorage, apiNoFile, apiOpening, cliVars>>

(***************************************************************************)
(* Initial states and specifications.                                      *)
(***************************************************************************)
NoFiles == [f \in Paths |-> IF f = NoDirPath THEN NoDir ELSE NoFile]

\* a created_at that is no RFC 3339 text: a year of two digits
BadText == Text(<<2, 3>>, <<0, 1>>, <<0, 1>>, <<0, 0>>, <<0, 0>>, <<0, 0>>, << >>, << >>)

\* 2024-02-29T12:30:00.1234567890+01:30: ten digits after the '.'
LongFractionText ==
    Text(<<2, 0, 2, 4>>, <<0, 2>>, <<2, 9>>, <<1, 2>>, <<3, 0>>, <<0, 0>>,
         <<1, 2, 3, 4, 5, 6, 7, 8, 9, 0>>, <<0, 0, 1, 3, 0>>)

\* 2023-12-31T23:59:60Z: a leap second
LeapSecondText ==
    Text(<<2, 0, 2, 3>>, <<1, 2>>, <<3, 1>>, <<2, 3>>, <<5, 9>>, <<6, 0>>, << >>, << >>)

GoodRow == Row("x", FormatRfc3339(DateTime(2023, 0, 0, 0)).value)

\* a JSON text whose created_at is out of range (second 60)
BadJson == [content |-> "x", created_at |-> <<2023, 1, 0, 0, 60, 0, 0, 0, 0>>]

\* the last day of a leap year, the offset components of mixed sign (+01:30)
LeapDayJson == [content |-> "x", created_at |-> <<2024, 366, 23, 59, 59, 5, 1, -30, 0>>]

\* an offset of 25:59:59, which has no RFC 3339 text
WideOffsetJson == [content |-> "y", created_at |-> <<2023, 1, 0, 0, 0, 0, 25, 59, 59>>]

\* stores written by something else than this program
ForeignFiles ==
    {[NoFiles EXCEPT ![ApiPath] = JsonFile([n \in {"a"} |-> BadJson])],
     [NoFiles EXCEPT ![ApiPath] =
         JsonFile([n \in {"a", "b"} |-> IF n = "a" THEN LeapDayJson ELSE WideOffsetJson])],
     [NoFiles EXCEPT ![ApiPath] =
         SqliteFile([n \in {"a", "b"} |-> IF n = "a" THEN Row("x", LongFractionText)
                                          ELSE Row("y", LeapSecondText)])],
     [NoFiles EXCEPT ![ApiPath] =
         SqliteFile([n \in {"a", "b"} |-> IF n = "a" THEN GoodRow ELSE Row("y", BadText)])]}

PriorEntry == Snippet("y", DateTime(2023, 7, 250000000, 0))

\* the database an earlier run of this program left behind
PriorDatabase ==
    [NoFiles EXCEPT ![ApiPath] =
        InsertSnippet(SqlDelete(SqliteNew(NoFile, "none").value), "b", PriorEntry, FALSE).value]

\* stores an earlier run of this program left behind
PriorFiles ==
    {[NoFiles EXCEPT ![ApiPath] =
         JsonSave(NoFile, [n \in {"b"} |-> PriorEntry], "none").value],
     PriorDatabase}

InitCli ==
    /\ clock = 0
    /\ pc = [p \in Procs |-> "idle"]
    /\ env = [p \in Procs |-> None]
    /\ log = [p \in Procs |-> None]
    /\ refused = [p \in Procs |-> FALSE]
    /\ args = [p \in Procs |-> NoArgs]
    /\ storage = [p \in Procs |-> NoBackend]
    /\ started = [p \in Procs |-> FALSE]
    /\ content = [p \in Procs |-> None]
    /\ map = [p \in Procs |-> EmptyColl]
    /\ loaded = [p \in Procs |-> EmptyColl]
    /\ overlap = [p \in Procs |-> {}]
    /\ pending = [p \in Procs |-> {}]
    /\ out = [p \in Procs |-> << >>]
    /\ exit = [p \in Procs |-> "running"]
    /\ saveCalls = [p \in Procs |-> 0]
    /\ intent = [p \in Procs |-> "none"]
    /\ clean = [p \in Procs |-> FALSE]
    /\ replaced = [p \in Procs |-> FALSE]

InitApi ==
    /\ apiStorage = NoBackend
    /\ apiData = Saved("none", FALSE, EmptyColl, {})
    /\ apiPending = << >>
    /\ apiResult = Result("none", "ok", EmptyColl, FALSE)
    /\ apiNoFile = FALSE
    /\ apiOpening = FALSE

Init ==
    /\ fs \in {NoFiles} \cup ForeignFiles \cup PriorFiles
    /\ InitCli
    /\ InitApi

\* one invocation after the other: process 1 alone
Next ==
    \/ \E a \in CommandLines, lg \in LogConfigs, denied \in BOOLEAN : Invoke(1, a, lg, denied)
    \/ \E e \in Option(Configs), denied \in BOOLEAN : InitStorageStep(1, e, denied)
    \/ \E denied \in BOOLEAN : CreateTable(1, denied)
    \/ \E fault \in LoadFaults : LoadStep(1, fault)
    \/ Download(1)
    \/ \E body \in Option(Contents) : Create(1, body)
    \/ \E fault \in SaveFaults : CallSave(1, fault)
    \/ \E n \in Names, denied \in BOOLEAN : SqliteInsert(1, n, denied, FALSE)
    \/ LogSaved(1)
    \/ Read(1)
    \/ Delete(1)
    \/ Usage(1)
    \/ Terminate(1)

Spec == Init /\ [][Next]_vars

NextApi ==
    \/ ApiJsonNew
    \/ \E denied \in BOOLEAN : ApiSqliteOpen(denied)
    \/ \E denied \in BOOLEAN : ApiSqliteNew(denied)
    \/ \E fault \in LoadFaults : ApiLoad(fault)
    \/ \E data \in Collections : \E order \in Orders(DOMAIN data) :
          \E fault \in SaveFaults : ApiSave(data, order, fault)
    \/ \E denied \in BOOLEAN : ApiInsert(denied)

SpecApi == Init /\ [][NextApi]_vars

SqliteConfig == Some(<<"SQLITE", ":", "p">>)

\* the invocations that write: --name or --delete alone, content from standard input
ConcArgs ==
    {a \in Args : /\ a.download = None
                  /\ a.read = None
                  /\ (a.name = None) # (a.delete = None)}

\* what standard input gives them: one text (rows differ in name and timestamp)
ConcContents == {"x"}

\* their log file: elsewhere, or the database itself
ConcLogs == {lg \in LogConfigs : lg # None => lg[1].file = ApiPath}

\* the invocations that overlap: a create of either name under any of these
\* logging set-ups, and a delete of "b" with its log elsewhere
ConcRuns ==
    {r \in ConcArgs \X ConcLogs :
        r[1].name = None => (r[1].delete = Some("b") /\ r[2] = None)}

\* two invocations at once, both configured for the same SQLite database; a
\* process whose main has returned is gone before anything else happens
NextConc ==
    \/ \E p \in Procs : Terminate(p)
    \/ /\ \A q \in Procs : pc[q] # "exit"
       /\ \E p \in Procs :
             \/ \E r \in ConcRuns, denied \in BOOLEAN :
                   Invoke(p, r[1], r[2], denied)
             \/ \E denied \in BOOLEAN : InitStorageStep(p, SqliteConfig, denied)
             \/ \E denied \in BOOLEAN : CreateTable(p, denied)
             \/ \E fault \in LoadFaults : LoadStep(p, fault)
             \/ \E body \in Option(ConcContents) : Create(p, body)
             \/ \E fault \in SaveFaults : CallSave(p, fault)
             \/ \E n \in Names, denied, held \in BOOLEAN : SqliteInsert(p, n, denied, held)
             \/ LogSaved(p)
             \/ Delete(p)

InitConc ==
    /\ fs = NoFiles
    /\ InitCli
    /\ InitApi

SpecConc == InitConc /\ [][NextConc]_vars

(***************************************************************************)
(* Properties of the storage layer (SpecApi).                              *)
(***************************************************************************)
ApiFile == fs[ApiPath]

\* the store holds a value that does not deserialize into a Snippet
Undeserializable(b, file) ==
    IF b.kind = "JSON"
    THEN file.kind \in {"sqlite", "empty", "byte", "text"}
         \/ (file.kind = "json" /\ \E n \in DOMAIN file.json : ~ValidJsonSnippet(file.json[n]))
    ELSE \E n \in DOMAIN file.rows : ~ParseRfc3339(file.rows[n].created_at).ok

\* C1: a load that follows a successful save(C) on the same kind of backend at the
\* same location, with nothing but constructions of backends and loads in between,
\* and that the file system or the database does not refuse, returns Ok with
\* exactly C: the same names, and per name the same content and created_at.
C1_RoundTrip ==
    (/\ apiResult.op = "load"
     /\ ~apiResult.denied
     /\ apiData.ok
     /\ apiData.kind = apiStorage.kind)
        => /\ apiResult.status = "ok"
           /\ DOMAIN apiResult.value = DOMAIN apiData.data
           /\ \A n \in DOMAIN apiData.data :
                 /\ apiResult.value[n].content = apiData.data[n].content
                 /\ apiResult.value[n].created_at = apiData.data[n].created_at

\* a SQLite round trip of two entries, one on the last day of a leap year with a
\* fraction of a second and an offset
C1_Witness ==
    /\ apiResult.op = "load"
    /\ apiResult.status = "ok"
    /\ apiData.ok
    /\ apiData.kind = "SQLITE"
    /\ apiStorage.kind = "SQLITE"
    /\ DOMAIN apiData.data = {"a", "b"}
    /\ apiData.data["a"].created_at = OffsetDateTime(2024, 366, 23, 59, 59, 120000000, 5400)
    /\ apiResult.value = apiData.data

\* C2: directly after a successful save the store holds exactly the collection
\* given to it: the stored names are the names of the collection, whatever was
\* stored before, and each stored value is the form of its entry.
C2_SaveReplacesAll ==
    (apiResult.op = "save" /\ apiResult.status = "ok")
        => /\ StoredNames(ApiFile) = DOMAIN apiData.data
           /\ ApiFile.kind = (IF apiData.kind = "JSON" THEN "json" ELSE "sqlite")
           /\ \A n \in DOMAIN apiData.data :
                 IF apiData.kind = "JSON"
                 THEN /\ ApiFile.json[n].content = apiData.data[n].content
                      /\ ValidJsonSnippet(ApiFile.json[n])
                      /\ DeserializeSnippet(ApiFile.json[n]) = apiData.data[n]
                 ELSE /\ ApiFile.rows[n].content = apiData.data[n].content
                      /\ ParseRfc3339(ApiFile.rows[n].created_at)
                            = Ok(apiData.data[n].created_at)

\* a successful save of a non-empty collection over a store that held another name
C2_Witness ==
    /\ apiResult.op = "save"
    /\ apiResult.status = "ok"
    /\ apiData.data # EmptyColl
    /\ apiData.before \ DOMAIN apiData.data # {}
    /\ StoredNames(ApiFile) = DOMAIN apiData.data

\* C7: a load from a store that holds an undeserializable value, the system
\* refusing nothing, fails with an error value (Err returned to the caller),
\* returns no collection, and leaves the store as it was.
C7_StrictLoadFailure ==
    [][(apiResult'.op = "load" /\ ~apiResult'.denied
            /\ Undeserializable(apiStorage, ApiFile))
          => /\ apiResult'.status = "error"
             /\ apiResult'.value = EmptyColl
             /\ fs' = fs]_vars

\* C8: JsonStorage::load without a file returns Ok with the empty collection and
\* creates no file.  SqliteStorage::new, the system and the database not refusing
\* it, succeeds on an absent database and on an existing one: its open creates
\* the file of the absent one and leaves the existing one as it is, its CREATE
\* TABLE makes the empty table in the new file and keeps the rows of the
\* existing one; and a load from a database without rows, the database not
\* refusing it, returns Ok with the empty collection.
C8_EmptyLoad ==
    [][/\ (apiResult'.op = "load" /\ apiStorage.kind = "JSON" /\ ApiFile.kind = "none")
           => (/\ apiResult'.status = "ok"
               /\ apiResult'.value = EmptyColl
               /\ fs' = fs)
       /\ (/\ apiResult'.op = "load"
           /\ ~apiResult'.denied
           /\ apiStorage.kind = "SQLITE"
           /\ ApiFile.rows = EmptyColl)
           => (/\ apiResult'.status = "ok"
               /\ apiResult'.value = EmptyColl
               /\ fs' = fs)
       /\ (/\ ~apiOpening
           /\ apiResult'.op \in {"open", "new"}
           /\ apiStorage'.kind # "JSON"
           /\ ~apiResult'.denied
           /\ ApiFile.kind \in {"none", "sqlite"})
           => /\ apiOpening'
              /\ ApiFile.kind = "none" => fs'[ApiPath] = EmptyFile
              /\ ApiFile.kind = "sqlite" => fs' = fs
       /\ (/\ apiOpening
           /\ apiResult'.op = "new"
           /\ ~apiResult'.denied
           /\ ApiFile.kind \in {"empty", "sqlite"})
           => /\ apiResult'.status = "ok"
              /\ apiStorage' = Backend("SQLITE", ApiPath)
              /\ ApiFile.kind = "empty" => fs'[ApiPath] = SqliteFile(EmptyColl)
              /\ ApiFile.kind = "sqlite" => fs' = fs]_vars

\* a load through JsonStorage has returned the empty collection, no file being
\* there; then SqliteStorage::new has created the database, and the load from it
\* has returned the empty collection
C8_Witness ==
    /\ apiNoFile
    /\ apiData.kind = "none"
    /\ apiStorage = Backend("SQLITE", ApiPath)
    /\ ApiFile = SqliteFile(EmptyColl)
    /\ apiResult.op = "load"
    /\ apiResult.status = "ok"
    /\ apiResult.value = EmptyColl

(***************************************************************************)
(* Properties of main, one invocation after the other (Spec).              *)
(***************************************************************************)
\* the collection a load through the backend of p would return now
Persisted(p) == StorageLoad(storage[p], fs, "none").value

\* the branch of main these arguments ask for
FirstIntent(a) ==
    IF a.special # "none" THEN a.special
    ELSE IF a.name # None THEN "create"
    ELSE IF a.read # None THEN "read"
    ELSE IF a.delete # None THEN "delete"
    ELSE "usage"

\* what read prints for name n of collection m
ReadOutput(m, n) ==
    IF n \notin DOMAIN m THEN Say("Snippet not found.")
    ELSE IF ~FormatRfc3339(m[n].created_at).ok THEN << >>
    ELSE <<Line("Created at: ", FormatRfc3339(m[n].created_at).value, ""),
           Line("", NoText, m[n].content)>>

\* C3: an invocation calls save only if it is a create, or a delete of a name the
\* loaded collection holds.  A read of a name the loaded collection holds or does
\* not hold, a delete of a name it does not hold and a no-flag invocation,
\* nothing being refused by the environment, never call save, print their
\* outcome ("Snippet not found." for a miss, the usage text without flags) and
\* return Ok.
C3_AsStated ==
    (pc[1] = "exit" /\ ~refused[1] /\ args[1].special = "none")
        => /\ saveCalls[1] > 0
               => \/ intent[1] = "create"
                  \/ intent[1] = "delete" /\ args[1].delete[1] \in DOMAIN loaded[1]
           /\ (FirstIntent(args[1]) = "read" /\ started[1])
               => /\ saveCalls[1] = 0
                  /\ exit[1] = "ok"
                  /\ out[1] = ReadOutput(loaded[1], args[1].read[1])
           /\ FirstIntent(args[1]) = "usage"
               => /\ saveCalls[1] = 0
                  /\ exit[1] = "ok"
                  /\ out[1] = UsageText
           /\ (/\ FirstIntent(args[1]) = "delete"
               /\ started[1]
               /\ args[1].delete[1] \notin DOMAIN loaded[1])
               => /\ saveCalls[1] = 0
                  /\ exit[1] = "ok"
                  /\ out[1] = Say("Snippet not found.")

\* the invocation of process 1 has its log file on the file of its store
LogsIntoStore == log[1] # None /\ log[1][1].file = storage[1].path

\* the collection that holds entry n of a create by process 1 next to collection m
Created(m) ==
    [n \in DOMAIN m \cup {args[1].name[1]} |->
        IF n = args[1].name[1] THEN Snippet(content[1][1], Now(clock - 1)) ELSE m[n]]

\* C4 as amended (the environment refusing nothing to the invocation): after a
\* successful create by an invocation whose log file is another file than its
\* store, the store holds the loaded collection with the entry of the given name
\* set to the new content and the timestamp read from the clock: an existing
\* entry is replaced and the number of entries stays, a
\* new name adds one entry, every other entry is as loaded.  An invocation whose
\* log file is its store has loaded nothing (start-up emptied the store); its
\* successful create leaves the new entry alone, or, where the log level lets
\* INFO through, a file that is no database.  After a successful delete of a
\* present name the store holds the loaded collection without that name.
C4_Overwrite ==
    /\ (pc[1] = "exit" /\ intent[1] = "create" /\ exit[1] = "ok" /\ ~refused[1])
        => IF LogsIntoStore
           THEN /\ loaded[1] = EmptyColl
                /\ IF Logs(log[1])
                   THEN fs[storage[1].path] = TextFile
                   ELSE /\ StorageLoad(storage[1], fs, "none").status = "ok"
                        /\ Persisted(1) = Created(EmptyColl)
           ELSE /\ StorageLoad(storage[1], fs, "none").status = "ok"
                /\ Persisted(1) = Created(loaded[1])
                /\ Cardinality(DOMAIN Persisted(1))
                      = Cardinality(DOMAIN loaded[1])
                        + (IF args[1].name[1] \in DOMAIN loaded[1] THEN 0 ELSE 1)
    /\ (/\ pc[1] = "exit" /\ intent[1] = "delete" /\ exit[1] = "ok" /\ saveCalls[1] = 1
        /\ ~refused[1])
        => /\ StorageLoad(storage[1], fs, "none").status = "ok"
           /\ DOMAIN Persisted(1) = DOMAIN loaded[1] \ {args[1].delete[1]}
           /\ \A n \in DOMAIN Persisted(1) : Persisted(1)[n] = loaded[1][n]

\* C4 as stated (the environment refusing nothing to the invocation): after
\* every successful create the store holds the loaded collection with the entry of the given name set to the new content and the
\* timestamp read from the clock: an existing entry is replaced and the number
\* of entries stays, a new name adds one entry, every other entry is as loaded.
C4_AsStated ==
    (pc[1] = "exit" /\ intent[1] = "create" /\ exit[1] = "ok" /\ ~refused[1])
        => /\ StorageLoad(storage[1], fs, "none").status = "ok"
           /\ DOMAIN Persisted(1) = DOMAIN loaded[1] \cup {args[1].name[1]}
           /\ Persisted(1)[args[1].name[1]] = Snippet(content[1][1], Now(clock - 1))
           /\ \A n \in DOMAIN loaded[1] \ {args[1].name[1]} : Persisted(1)[n] = loaded[1][n]
           /\ Cardinality(DOMAIN Persisted(1))
                 = Cardinality(DOMAIN loaded[1])
                   + (IF args[1].name[1] \in DOMAIN loaded[1] THEN 0 ELSE 1)

\* a create has replaced content and timestamp of an entry, next to another entry
C4_Witness ==
    /\ pc[1] = "exit"
    /\ intent[1] = "create"
    /\ exit[1] = "ok"
    /\ storage[1].kind = "SQLITE"
    /\ DOMAIN loaded[1] = {"a", "b"}
    /\ args[1].name = Some("a")
    /\ Persisted(1)["a"].content # loaded[1]["a"].content
    /\ Persisted(1)["a"].created_at # loaded[1]["a"].created_at
    /\ Persisted(1)["b"] = loaded[1]["b"]
    /\ Cardinality(DOMAIN Persisted(1)) = 2
    /\ ~refused[1]

\* the configuration string has a separator and this text before the first one
KindTag(c, k) ==
    \E i \in 1..Len(c) : c[i] = ":" /\ (\A j \in 1..(i - 1) : c[j] # ":")
                         /\ SubSeq(c, 1, i - 1) = k

\* the text of the configuration string after its first separator
Location(c) ==
    LET i == CHOOSE i \in 1..Len(c) : c[i] = ":" /\ \A j \in 1..(i - 1) : c[j] # ":"
    IN  SubSeq(c, i + 1, Len(c))

\* C5 as amended: init_storage on a configuration string without ':' or with a
\* kind tag other than "JSON" and "SQLITE" returns an error: no backend is built
\* and no file or database is opened, created or changed.  For "JSON" it builds a
\* JsonStorage on the text after the first ':'.  For "SQLITE" it builds a
\* SqliteStorage on that text where the database there can be opened (an absent
\* file is created) and its table created; where not (the system or the database
\* refuses, the directory is missing, the file is no database) it returns an
\* error and builds no backend.
C5_SelectorValidation ==
    [][/\ (pc[1] = "init" /\ pc'[1] # "init" /\ env'[1] # None)
          => /\ (~KindTag(env'[1][1], <<"JSON">>) /\ ~KindTag(env'[1][1], <<"SQLITE">>))
                 => /\ pc'[1] = "exit"
                    /\ exit'[1] = "error"
                    /\ storage'[1] = NoBackend
                    /\ fs' = fs
             /\ KindTag(env'[1][1], <<"JSON">>)
                 => /\ pc'[1] = "load"
                    /\ storage'[1] = Backend("JSON", Location(env'[1][1]))
                    /\ fs' = fs
             /\ KindTag(env'[1][1], <<"SQLITE">>)
                 => IF refused'[1] \/ fs[Location(env'[1][1])].kind = "nodir"
                    THEN /\ pc'[1] = "exit"
                         /\ exit'[1] = "error"
                         /\ storage'[1] = NoBackend
                         /\ fs' = fs
                    ELSE /\ pc'[1] = "table"
                         /\ \A f \in Paths \ {Location(env'[1][1])} : fs'[f] = fs[f]
                         /\ fs'[Location(env'[1][1])]
                               = (IF fs[Location(env'[1][1])].kind = "none" THEN EmptyFile
                                  ELSE fs[Location(env'[1][1])])
       /\ (pc[1] = "table" /\ pc'[1] # "table")
          => IF refused'[1] \/ fs[Location(env[1][1])].kind \notin {"empty", "byte", "sqlite"}
             THEN /\ pc'[1] = "exit"
                  /\ exit'[1] = "error"
                  /\ storage'[1] = NoBackend
                  /\ fs' = fs
             ELSE /\ pc'[1] = "load"
                  /\ storage'[1] = Backend("SQLITE", Location(env[1][1]))
                  /\ fs'[Location(env[1][1])].kind = "sqlite"
                  /\ fs'[Location(env[1][1])].rows = fs[Location(env[1][1])].rows]_vars

\* C5 as stated: as above for a string without ':' or with another kind tag and
\* for "JSON"; for "SQLITE", the system and the database refusing nothing,
\* init_storage builds a SqliteStorage on the text after the first ':'.
C5_AsStated ==
    [][/\ (pc[1] = "init" /\ pc'[1] # "init" /\ env'[1] # None)
          => /\ (~KindTag(env'[1][1], <<"JSON">>) /\ ~KindTag(env'[1][1], <<"SQLITE">>))
                 => /\ pc'[1] = "exit"
                    /\ exit'[1] = "error"
                    /\ storage'[1] = NoBackend
                    /\ fs' = fs
             /\ KindTag(env'[1][1], <<"JSON">>)
                 => /\ pc'[1] = "load"
                    /\ storage'[1] = Backend("JSON", Location(env'[1][1]))
                    /\ fs' = fs
             /\ (KindTag(env'[1][1], <<"SQLITE">>) /\ ~refused'[1])
                 => pc'[1] = "table"
       /\ (pc[1] = "table" /\ pc'[1] # "table" /\ ~refused'[1])
          => /\ pc'[1] = "load"
             /\ storage'[1] = Backend("SQLITE", Location(env[1][1]))]_vars

\* init_storage has built a JsonStorage on a location that itself holds a ':'
C5_Witness ==
    /\ pc[1] = "load"
    /\ env[1] = Some(<<"JSON", ":", "d", "/", "p", ":", "q">>)
    /\ storage[1] = Backend("JSON", NoDirPath)

\* C6: an invocation without --name, --read and --delete, nothing being refused
\* by the environment, prints the usage text and returns Ok, whatever the
\* storage configuration, also when there is none.
C6_UsageWithoutArgs ==
    (pc[1] = "exit" /\ FirstIntent(args[1]) = "usage" /\ ~refused[1])
        => (exit[1] = "ok" /\ out[1] = UsageText)

\* what an invocation that returns Ok has printed, by the first of its flags
Printed(p) ==
    IF FirstIntent(args[p]) = "create" THEN Say("Snippet saved.")
    ELSE IF FirstIntent(args[p]) = "read" THEN ReadOutput(loaded[p], args[p].read[1])
    ELSE IF FirstIntent(args[p]) = "delete"
    THEN Say(IF args[p].delete[1] \in DOMAIN loaded[p] THEN "Snippet deleted."
             ELSE "Snippet not found.")
    ELSE UsageText

\* C10: every invocation, its command line being one Args::parse accepts and
\* nothing being refused by the environment, performs exactly one of create,
\* read, delete and usage, the first in this order whose flag is given, and calls
\* save once at most; a read and a usage never call it.  What it prints where it
\* returns Ok is the output of that one branch: the other flags, and --download
\* without --name, change nothing.
C10_AsStated ==
    (pc[1] = "exit" /\ args[1].special = "none" /\ ~refused[1])
        => /\ intent[1] = FirstIntent(args[1])
           /\ saveCalls[1] <= 1
           /\ FirstIntent(args[1]) \in {"read", "usage"} => saveCalls[1] = 0
           /\ exit[1] = "ok" => out[1] = Printed(1)

(***************************************************************************)
(* Properties of two overlapping invocations on one SQLite store           *)
(* (SpecConc).                                                             *)
(***************************************************************************)
\* q's save returns an error from an INSERT; as in the scenario of C9, where the
\* other invocation loads, nothing but this save has written since its DELETE
FailsAlone(q) == pc[q] = "insert" /\ pc'[q] = "exit" /\ exit'[q] = "error" /\ clean[q]

\* a load that ran while another process was between the DELETE and the last
\* INSERT of its save, that process alone writing, returned exactly the entries
\* inserted until then: a strict part of the collection being saved
LoadSeesPartialSave ==
    \A p \in Procs : \A q \in Others(p) :
        (pc[p] = "load" /\ pc'[p] = "dispatch" /\ pc[q] = "insert" /\ clean[q])
            => /\ SubColl(map'[p], map[q])
               /\ DOMAIN map'[p] = DOMAIN map[q] \ pending[q]
               /\ map'[p] # map[q]

\* C9 as amended: SqliteStorage::save is not atomic.  While one invocation is
\* between the DELETE and the last INSERT of its save, a load by the other returns
\* a strict part of the collection being saved, possibly nothing (see
\* LoadSeesPartialSave).  A save that fails after the DELETE leaves the rows
\* inserted until then, a strict part of the new collection and so fewer rows
\* than it has; they need not be fewer than the rows of the old collection.
C9_NonAtomicSave ==
    [][/\ LoadSeesPartialSave
       /\ \A q \in Procs :
             FailsAlone(q)
                 => /\ fs' = fs
                    /\ SubColl(SqliteLoad(fs'[storage[q].path], FALSE).value, map[q])
                    /\ DOMAIN fs'[storage[q].path].rows = DOMAIN map[q] \ pending[q]
                    /\ Cardinality(DOMAIN fs'[storage[q].path].rows)
                          < Cardinality(DOMAIN map[q])]_vars

\* C9 as stated: as above for the load; a save that fails after the DELETE, the
\* store having held a non-empty collection, leaves fewer rows than the old and
\* than the new collection.
C9_AsStated ==
    [][/\ LoadSeesPartialSave
       /\ \A q \in Procs :
             (FailsAlone(q) /\ loaded[q] # EmptyColl)
                 => /\ Cardinality(DOMAIN fs'[storage[q].path].rows)
                          < Cardinality(DOMAIN loaded[q])
                    /\ Cardinality(DOMAIN fs'[storage[q].path].rows)
                          < Cardinality(DOMAIN map[q])]_vars

\* a process loaded the empty collection while the other, alone, was saving over a
\* store that had held entries
C9_Witness ==
    \E p \in Procs :
        /\ pc[p] = "dispatch"
        /\ loaded[p] = EmptyColl
        /\ \E o \in overlap[p] : o.alone /\ o.hadEntries

====
